---- MODULE Spec2Model ----
(***************************************************************************)
(* Model of the PDF AI Notes server (src/python/main.py, models.py,        *)
(* prompts.py): the module-level completion client, the request schema,    *)
(* the prompt builder and the POST /api/summarize handler.                 *)
(*                                                                         *)
(* Strings are sequences of symbols.  A symbol is one character (" ",      *)
(* "\n", "a", a digit, ...) or one fixed literal of the source taken as a  *)
(* single chunk ("Summarization failed: ").  Optional[T] is a sequence of  *)
(* length at most one: None is << >> and a present value v is << v >>.     *)
(***************************************************************************)
EXTENDS Integers, Sequences, FiniteSets, TLC

VARIABLES client, req, pcall

vars == <<client, req, pcall>>

----------------------------------------------------------------------------
(* Bounds *)

NumRequests == 2

MaxTextLen == 1

MaxNameLen == 1

MaxPage == 11

MaxContentLen == 4

MaxMsgLen == 1

----------------------------------------------------------------------------
(* Optional values and strings *)

None == << >>

Some(v) == << v >>

Unwrap(o) == o[1]

StrUpTo(A, n) == UNION { [1..k -> A] : k \in 0..n }

\* characters str.strip() removes (a representative subset of Python's
\* whitespace set)
Whitespace == {" ", "\n", "\t"}

Digits == <<"0", "1", "2", "3", "4", "5", "6", "7", "8", "9">>

RECURSIVE NatToStr(_)
NatToStr(n) ==
    IF n < 10 THEN <<Digits[n + 1]>>
    ELSE NatToStr(n \div 10) \o <<Digits[(n % 10) + 1]>>

\* f"{page_number}" for an int
IntToStr(n) == IF n < 0 THEN <<"-">> \o NatToStr(0 - n) ELSE NatToStr(n)

RECURSIVE lstrip(_)
lstrip(s) ==
    IF s # << >> /\ Head(s) \in Whitespace THEN lstrip(Tail(s)) ELSE s

RECURSIVE rstrip(_)
rstrip(s) ==
    IF s # << >> /\ s[Len(s)] \in Whitespace
    THEN rstrip(SubSeq(s, 1, Len(s) - 1))
    ELSE s

stripLeftOnly(s) == lstrip(s)

\* str.strip()
strip(s) == rstrip(lstrip(s))

RECURSIVE Join(_, _)
\* sep.join(parts)
Join(parts, sep) ==
    IF parts = << >> THEN << >>
    ELSE IF Len(parts) = 1 THEN parts[1]
    ELSE parts[1] \o sep \o Join(Tail(parts), sep)

----------------------------------------------------------------------------
(* models.py: SummarizeRequest *)

SummarizeRequestValidPageGe0(body) ==
    /\ Len(body.text) >= 1
    /\ (body.page_number = None \/ Unwrap(body.page_number) >= 0)

\* Field(min_length=1) on text, Field(ge=1) on page_number, pdf_name free
SummarizeRequestValid(body) ==
    /\ Len(body.text) >= 1
    /\ (body.page_number = None \/ Unwrap(body.page_number) >= 1)

----------------------------------------------------------------------------
(* prompts.py: build_summarize_prompt *)

\* Python truthiness of an Optional[str]: None and "" are falsy
TruthyStr(o) == o # None /\ Unwrap(o) # << >>

\* Python truthiness of an Optional[int]: None and 0 are falsy
TruthyInt(o) == o # None /\ Unwrap(o) # 0

PromptIntro ==
    <<"\n", "\n",
      "Please create clear, structured notes from this extracted PDF text:",
      "\n", "\n", "---", "\n">>

PromptOutro ==
    <<"\n", "---", "\n", "\n",
      "Generate comprehensive notes following the format specified in your system prompt.">>

build_summarize_prompt_is_not_none(text, pdf_name, page_number) ==
    LET docPart == IF pdf_name # None
                   THEN << <<"Document: ">> \o Unwrap(pdf_name) >>
                   ELSE << >>
        pagePart == IF page_number # None
                    THEN << <<"Page: ">> \o IntToStr(Unwrap(page_number)) >>
                    ELSE << >>
        context_parts == docPart \o pagePart
        context == IF context_parts # << >>
                   THEN Join(context_parts, <<"\n">>)
                   ELSE <<"Source: PDF page">>
    IN  context \o PromptIntro \o text \o PromptOutro

build_summarize_prompt(text, pdf_name, page_number) ==
    LET docPart == IF TruthyStr(pdf_name)
                   THEN << <<"Document: ">> \o Unwrap(pdf_name) >>
                   ELSE << >>
        pagePart == IF TruthyInt(page_number)
                    THEN << <<"Page: ">> \o IntToStr(Unwrap(page_number)) >>
                    ELSE << >>
        context_parts == docPart \o pagePart
        context == IF context_parts # << >>
                   THEN Join(context_parts, <<"\n">>)
                   ELSE <<"Source: PDF page">>
    IN  context \o PromptIntro \o text \o PromptOutro

----------------------------------------------------------------------------
(* Inputs *)

Texts == StrUpTo({"x"}, MaxTextLen)

PdfNames == {None} \cup { Some(s) : s \in StrUpTo({"n"}, MaxNameLen) }

PageNumbers == {None} \cup { Some(n) : n \in (0 - 1)..MaxPage }

Bodies == [text : Texts, pdf_name : PdfNames, page_number : PageNumbers]

NoBody == [text |-> << >>, pdf_name |-> None, page_number |-> None]

Contents == StrUpTo({" ", "\n", "a"}, MaxContentLen)

Messages == StrUpTo({"timed out"}, MaxMsgLen)

\* what client.chat.completions.create(...) followed by
\* response.choices[0].message.content can produce:
\*   raise    - the call raises an exception e with str(e) = msg
\*   nochoice - the call returns, choices is empty, choices[0] raises IndexError
\*   content  - the call returns and the first choice's content is content
Outcomes ==
    { [kind |-> "raise", msg |-> m, content |-> None] : m \in Messages }
    \cup { [kind |-> "nochoice", msg |-> << >>, content |-> None] }
    \cup { [kind |-> "content", msg |-> << >>, content |-> c] :
             c \in {None} \cup { Some(s) : s \in Contents } }

\* the small inputs used when several requests are in flight
ConcBodies ==
    { [text |-> <<"x">>, pdf_name |-> None, page_number |-> None],
      [text |-> <<"x">>, pdf_name |-> Some(<<"n">>), page_number |-> Some(3)],
      [text |-> << >>, pdf_name |-> None, page_number |-> None],
      [text |-> <<"x">>, pdf_name |-> None, page_number |-> Some(0)] }

ConcOutcomes ==
    { [kind |-> "raise", msg |-> <<"timed out">>, content |-> None],
      [kind |-> "nochoice", msg |-> << >>, content |-> None],
      [kind |-> "content", msg |-> << >>, content |-> None],
      [kind |-> "content", msg |-> << >>, content |-> Some(<<" ", "a", " ">>)] }

----------------------------------------------------------------------------
(* main.py: the response envelopes built by summarize_text *)

NoResponse == None

IsNoneOnly(o) == o = None

\* `not summary` for an Optional[str]
IsFalsy(o) == o = None \/ Unwrap(o) = << >>

EmptyResponseNoError ==
    [summary |-> None, success |-> FALSE, error |-> None]

EmptyResponse ==
    [summary |-> None, success |-> FALSE,
     error |-> Some(<<"AI model returned empty response">>)]

SuccessResponse(summary) ==
    [summary |-> Some(strip(summary)), success |-> TRUE, error |-> None]

\* str(e) of the exception the guarded section caught
ExceptionMessage(o) ==
    IF o.kind = "nochoice" THEN <<"list index out of range">> ELSE o.msg

FailureResponseNoCause(o) ==
    [summary |-> None, success |-> FALSE,
     error |-> Some(<<"Summarization failed">>)]

FailureResponse(o) ==
    [summary |-> None, success |-> FALSE,
     error |-> Some(<<"Summarization failed: ">> \o ExceptionMessage(o))]

----------------------------------------------------------------------------
(* State *)

Requests == 1..NumRequests

IdleRequest ==
    [pc |-> "idle", body |-> NoBody, user_prompt |-> None, calls |-> 0,
     outcome |-> None, status |-> 0, response |-> NoResponse, detail |-> None]

NoCall == [text |-> << >>, pdf_name |-> None, page_number |-> None,
           result |-> None]

\* main.py line 22: client is None until lifespan runs; no request has arrived
Init ==
    /\ client = "None"
    /\ req = [r \in Requests |-> IdleRequest]
    /\ pcall = NoCall

----------------------------------------------------------------------------
(* Operations *)

\* startup half of lifespan: the one assignment to the module-level client
lifespan ==
    /\ client = "None"
    /\ client' = "OpenAI"
    /\ UNCHANGED <<req, pcall>>

\* the framework parses the body into a SummarizeRequest before the handler
\* body runs; a schema violation ends the request with 422
Receive(r, body) ==
    /\ req[r].pc = "idle"
    /\ req' = [req EXCEPT ![r] =
                 IF SummarizeRequestValid(body)
                 THEN [@ EXCEPT !.pc = "validated", !.body = body]
                 ELSE [@ EXCEPT !.pc = "done", !.body = body, !.status = 422]]
    /\ UNCHANGED <<client, pcall>>

summarize_text_entry_unchecked(r) ==
    /\ req[r].pc = "validated"
    /\ req' = [req EXCEPT ![r] =
                 [@ EXCEPT !.pc = "call",
                           !.user_prompt =
                               Some(build_summarize_prompt(
                                      req[r].body.text, req[r].body.pdf_name,
                                      req[r].body.page_number)),
                           !.calls = @ + 1]]
    /\ UNCHANGED <<client, pcall>>

\* summarize_text up to the provider call: the client check, the prompt,
\* and the call being issued
summarize_text_entry(r) ==
    /\ req[r].pc = "validated"
    /\ req' = [req EXCEPT ![r] =
                 IF client = "None"
                 THEN [@ EXCEPT !.pc = "done", !.status = 500,
                                !.detail = Some(<<"AI service not available">>)]
                 ELSE [@ EXCEPT !.pc = "call",
                                !.user_prompt =
                                    Some(build_summarize_prompt(
                                           req[r].body.text, req[r].body.pdf_name,
                                           req[r].body.page_number)),
                                !.calls = @ + 1]]
    /\ UNCHANGED <<client, pcall>>

\* the envelope summarize_text returns for a provider outcome
ResponseFor(o) ==
    IF o.kind = "content"
    THEN IF IsFalsy(o.content)
         THEN EmptyResponse
         ELSE SuccessResponse(Unwrap(o.content))
    ELSE FailureResponse(o)

summarize_text_complete_retry(r, o) ==
    /\ req[r].pc = "call"
    /\ req' = [req EXCEPT ![r] =
                 IF o.kind = "raise" /\ req[r].calls < 3
                 THEN [@ EXCEPT !.calls = @ + 1]
                 ELSE [@ EXCEPT !.pc = "done", !.outcome = Some(o),
                                !.status = 200,
                                !.response = Some(ResponseFor(o))]]
    /\ UNCHANGED <<client, pcall>>

summarize_text_complete_resets_client(r, o) ==
    /\ req[r].pc = "call"
    /\ req' = [req EXCEPT ![r] =
                 [@ EXCEPT !.pc = "done", !.outcome = Some(o), !.status = 200,
                           !.response = Some(ResponseFor(o))]]
    /\ client' = IF o.kind = "content" THEN client ELSE "None"
    /\ UNCHANGED pcall

\* summarize_text from the provider call's result to the returned envelope
summarize_text_complete(r, o) ==
    /\ req[r].pc = "call"
    /\ req' = [req EXCEPT ![r] =
                 [@ EXCEPT !.pc = "done", !.outcome = Some(o), !.status = 200,
                           !.response = Some(ResponseFor(o))]]
    /\ UNCHANGED <<client, pcall>>

\* one request, every request body and every provider outcome
Next ==
    \/ lifespan
    \/ \E body \in Bodies : Receive(1, body)
    \/ summarize_text_entry(1)
    \/ \E o \in Outcomes : summarize_text_complete(1, o)

Spec == Init /\ [][Next]_vars

\* several requests in flight, each suspended at its provider call
NextConc ==
    \/ lifespan
    \/ \E r \in Requests : \E body \in ConcBodies : Receive(r, body)
    \/ \E r \in Requests : summarize_text_entry(r)
    \/ \E r \in Requests : \E o \in ConcOutcomes : summarize_text_complete(r, o)

SpecConc == Init /\ [][NextConc]_vars

\* direct calls of the pure function build_summarize_prompt
InitPrompt ==
    /\ client = "None"
    /\ req = [r \in Requests |-> IdleRequest]
    /\ pcall \in [text : Texts, pdf_name : PdfNames,
                  page_number : PageNumbers, result : {None}]

CallBuildPrompt ==
    /\ pcall.result = None
    /\ pcall' = [pcall EXCEPT !.result =
                   Some(build_summarize_prompt(pcall.text, pcall.pdf_name,
                                               pcall.page_number))]
    /\ UNCHANGED <<client, req>>

NextPrompt == CallBuildPrompt

SpecPrompt == InitPrompt /\ [][NextPrompt]_vars

----------------------------------------------------------------------------
(* Properties *)

Responded(r) == req[r].response # None

Envelope(r) == Unwrap(req[r].response)

Received(r) == req[r].outcome # None

Outcome(r) == Unwrap(req[r].outcome)

AllWhitespace(s) == \A i \in 1..Len(s) : s[i] \in Whitespace

\* t is S without its leading and trailing whitespace: a contiguous piece of
\* S, everything cut off is whitespace, and nothing more could be cut off
IsTrimOf(t, S) ==
    /\ \E i \in 1..(Len(S) + 1) : \E j \in 0..Len(S) :
         /\ t = SubSeq(S, i, j)
         /\ AllWhitespace(SubSeq(S, 1, i - 1))
         /\ AllWhitespace(SubSeq(S, j + 1, Len(S)))
    /\ (t = << >> \/ (t[1] \notin Whitespace /\ t[Len(t)] \notin Whitespace))

IsPrefix(p, s) == Len(p) <= Len(s) /\ SubSeq(s, 1, Len(p)) = p

\* C1: every SummarizeResponse has exactly one of summary and error set:
\* success implies summary non-null and error null, failure implies summary
\* null and error non-null.
C1_ExactlyOneOfSummaryError ==
    \A r \in Requests :
        Responded(r) =>
            /\ (Envelope(r).success =>
                    Envelope(r).summary # None /\ Envelope(r).error = None)
            /\ (~Envelope(r).success =>
                    Envelope(r).summary = None /\ Envelope(r).error # None)

C1_Witness ==
    \E r \in Requests :
        /\ Responded(r)
        /\ Outcome(r).kind = "content"
        /\ Outcome(r).content = None
        /\ ~Envelope(r).success

\* C2: success is true iff a non-empty summary was obtained: whenever
\* success is true the summary is a string of length >= 1, also for content
\* made only of whitespace.
C2_SuccessIffNonEmptySummary ==
    \A r \in Requests :
        Responded(r) =>
            (Envelope(r).success <=>
                (Envelope(r).summary # None
                    /\ Len(Unwrap(Envelope(r).summary)) >= 1))

\* C3 (as stated): while the client is None every finished request, whether
\* its body is valid or not, ended with status 500 and detail
\* "AI service not available", and made no provider call.
C3_Always500WithoutClient ==
    client = "None" =>
        \A r \in Requests :
            req[r].pc = "done" =>
                /\ req[r].status = 500
                /\ req[r].detail = Some(<<"AI service not available">>)
                /\ req[r].calls = 0

\* C3 (amended): while the client is None every finished request with a
\* schema-valid body ended with status 500 and detail
\* "AI service not available", every finished request with an invalid body
\* (empty text or page_number < 1) ended with status 422, and in both cases
\* the provider was never called.
C3_500ForValidWithoutClient ==
    client = "None" =>
        \A r \in Requests :
            req[r].pc = "done" =>
                LET b == req[r].body
                    bad == \/ Len(b.text) = 0
                           \/ (b.page_number # None /\ Unwrap(b.page_number) < 1)
                IN  /\ req[r].calls = 0
                    /\ req[r].response = None
                    /\ (~bad => /\ req[r].status = 500
                                /\ req[r].detail =
                                       Some(<<"AI service not available">>))
                    /\ (bad => req[r].status = 422)

C3_Witness ==
    /\ client = "None"
    /\ \E r \in Requests :
        /\ req[r].pc = "done"
        /\ Len(req[r].body.text) >= 1
        /\ req[r].status = 500

\* C4: a failure with message M inside the guarded section (the provider
\* call raises, or taking the first choice raises) ends the request with
\* status 200 and {success: false, summary: null,
\* error: "Summarization failed: M"}.
C4_FailureBecomesEnvelope ==
    \A r \in Requests :
        (Received(r) /\ Outcome(r).kind \in {"raise", "nochoice"}) =>
            LET M == IF Outcome(r).kind = "raise"
                     THEN Outcome(r).msg
                     ELSE <<"list index out of range">>
            IN  /\ req[r].pc = "done"
                /\ req[r].status = 200
                /\ req[r].detail = None
                /\ req[r].response =
                       Some([summary |-> None, success |-> FALSE,
                             error |-> Some(<<"Summarization failed: ">> \o M)])

C4_Witness ==
    \E r \in Requests :
        /\ Received(r)
        /\ Outcome(r).kind = "raise"
        /\ Outcome(r).msg = <<"timed out">>
        /\ req[r].status = 200

\* C5: a non-empty content S gives {success: true, summary: trim(S),
\* error: null}, where trim removes leading and trailing whitespace only.
C5_SuccessSummaryIsTrimmed ==
    \A r \in Requests :
        (/\ Received(r)
         /\ Outcome(r).kind = "content"
         /\ Outcome(r).content # None
         /\ Unwrap(Outcome(r).content) # << >>) =>
            /\ req[r].status = 200
            /\ Responded(r)
            /\ Envelope(r).success
            /\ Envelope(r).error = None
            /\ Envelope(r).summary # None
            /\ IsTrimOf(Unwrap(Envelope(r).summary), Unwrap(Outcome(r).content))

C5_Witness ==
    \E r \in Requests :
        /\ Received(r)
        /\ Outcome(r).content = Some(<<" ", "a", "\n", "a">>)
        /\ Responded(r)
        /\ Envelope(r).summary = Some(<<"a", "\n", "a">>)

\* C6: a successful provider call whose first choice has empty content
\* ("" or None) gives status 200 with {success: false, summary: null,
\* error: "AI model returned empty response"}.
C6_EmptyContentEnvelope ==
    \A r \in Requests :
        (/\ Received(r)
         /\ Outcome(r).kind = "content"
         /\ (Outcome(r).content = None \/ Outcome(r).content = Some(<< >>))) =>
            /\ req[r].status = 200
            /\ req[r].response =
                   Some([summary |-> None, success |-> FALSE,
                         error |-> Some(<<"AI model returned empty response">>)])

C6_Witness ==
    \E r \in Requests :
        /\ Received(r)
        /\ Outcome(r).kind = "content"
        /\ Outcome(r).content = Some(<< >>)
        /\ Responded(r)

\* C7: a request with empty text or page_number < 1 is rejected with 422
\* before the handler body runs: no provider call, no SummarizeResponse.
C7_InvalidRejectedBeforeHandler ==
    \A r \in Requests :
        (/\ req[r].pc # "idle"
         /\ \/ Len(req[r].body.text) = 0
            \/ (req[r].body.page_number # None
                  /\ Unwrap(req[r].body.page_number) < 1)) =>
            /\ req[r].pc = "done"
            /\ req[r].status = 422
            /\ req[r].calls = 0
            /\ req[r].user_prompt = None
            /\ req[r].outcome = None
            /\ req[r].response = None

C7_Witness ==
    /\ client = "OpenAI"
    /\ \E r \in Requests :
        /\ req[r].pc = "done"
        /\ Len(req[r].body.text) >= 1
        /\ req[r].body.page_number = Some(0)
        /\ req[r].status = 422

\* C8: each request makes at most one provider call; once the call returns
\* or raises the handler goes straight to a terminal response and a finished
\* request never changes again.
C8_AtMostOneProviderCall ==
    /\ [](\A r \in Requests : req[r].calls <= 1)
    /\ [][\A r \in Requests :
            /\ (req[r].pc = "call" /\ req'[r] # req[r]) =>
                   (req'[r].pc = "done" /\ req'[r].calls = req[r].calls)
            /\ (req[r].pc = "done" => req'[r] = req[r])]_vars

C8_Witness ==
    \E r \in Requests :
        /\ req[r].pc = "done"
        /\ req[r].calls = 1
        /\ Received(r)
        /\ Outcome(r).kind = "raise"

\* the prompt's first lines up to the blank line and the fixed instruction
PromptStartsWithContext(context) ==
    IsPrefix(context \o <<"\n", "\n",
               "Please create clear, structured notes from this extracted PDF text:">>,
             Unwrap(pcall.result))

DocumentLine == <<"Document: ">> \o Unwrap(pcall.pdf_name)

PageLine == <<"Page: ">> \o IntToStr(Unwrap(pcall.page_number))

ContextFor(hasName, hasPage) ==
    IF hasName /\ hasPage THEN DocumentLine \o <<"\n">> \o PageLine
    ELSE IF hasName THEN DocumentLine
    ELSE IF hasPage THEN PageLine
    ELSE <<"Source: PDF page">>

\* C9 (as stated): the prompt starts with the context chosen by which
\* optional fields are given (not None), for every given value including
\* pdf_name = "".
C9_ContextByGivenFields ==
    pcall.result # None =>
        PromptStartsWithContext(
            ContextFor(pcall.pdf_name # None, pcall.page_number # None))

\* C9 (amended): the prompt starts with the context chosen by which optional
\* fields are given and truthy: pdf_name counts when it is a non-empty
\* string, page_number when it is a non-zero integer; an empty pdf_name or a
\* page_number of 0 is treated as not given.
C9_ContextByTruthyFields ==
    pcall.result # None =>
        PromptStartsWithContext(
            ContextFor(pcall.pdf_name # None /\ Len(Unwrap(pcall.pdf_name)) > 0,
                       pcall.page_number # None /\ Unwrap(pcall.page_number) # 0))

C9_Witness ==
    /\ pcall.result # None
    /\ pcall.pdf_name = Some(<< >>)
    /\ pcall.page_number = Some(10)
    /\ IsPrefix(<<"Page: ", "1", "0", "\n", "\n">>, Unwrap(pcall.result))

\* C10: concurrent requests do not interfere: the client is assigned once,
\* from None, by a step that touches no request; a step of one request
\* leaves every other request unchanged; and two finished requests with the
\* same body and the same provider outcome have the same status and
\* response, whatever the other requests did.
C10_RequestsDoNotInterfere ==
    /\ [](\A r, q \in Requests :
            (/\ req[r].pc = "done" /\ req[q].pc = "done"
             /\ req[r].body = req[q].body
             /\ req[r].outcome = req[q].outcome) =>
                /\ req[r].status = req[q].status
                /\ req[r].response = req[q].response
                /\ req[r].detail = req[q].detail)
    /\ [][/\ (client' # client => (client = "None" /\ req' = req))
          /\ \A r \in Requests :
                req'[r] # req[r] =>
                    \A q \in Requests \ {r} : req'[q] = req[q]]_vars

C10_Witness ==
    \E r, q \in Requests :
        /\ r # q
        /\ req[r].pc = "call"
        /\ req[q].pc = "done"
        /\ req[q].status = 200
        /\ req[q].body = req[r].body

====
